---- MODULE Spec2Model ----
(***************************************************************************)
(* Model of the CDM browser extension's background script                  *)
(* (src/src/background.ts) and its settings singleton                      *)
(* (src/utils/app-settings.ts).                                            *)
(*                                                                         *)
(* Strings are sequences of one-character strings, so that the suffix      *)
(* extraction of getFileExtension is computed as the code computes it.     *)
(* The JavaScript value undefined of an absent string field is the         *)
(* one-element sequence Undefined.                                         *)
(***************************************************************************)
EXTENDS Integers, Sequences, FiniteSets, TLC

VARIABLES
    browserType,        \* utils.detectBrowser(): "Chromium" or "Firefox"
    downloads,          \* the browser's download of each id (owned by the browser)
    handlers,           \* one handleDownload invocation per download id and notification kind
    capturedDownloads,  \* background.ts: const capturedDownloads = new Set<number>()
    ignoredDownloads,   \* background.ts: const ignoredDownloads = new Set<string>()
    tabsCreated,        \* the urls chrome.tabs.create was called with
    requests,           \* message and context-menu handler invocations
    settings,           \* AppSettings._settings
    storage,            \* chrome.storage.local["settings"], NoSettings when absent
    writes,             \* chrome.storage.local.set calls issued and not yet completed (FIFO)
    changes,            \* chrome.storage.onChanged events not yet delivered (FIFO)
    toggles,            \* number of icon clicks so far
    now,                \* Date.now(), in minutes since AppSettings was constructed
    lastFetchTime,      \* AppSettings.lastFetchTime, same unit
    fetching,           \* GETs of the supported-type catalog awaiting their response
    calls,              \* the updateSupportedFileTypes calls so far, oldest first
    initPc,             \* where AppSettings._initialize stands; "ready" once it returned
    extItem,      \* FileTypeResolver harness: the download item under test
    extTypes,     \* FileTypeResolver harness: the supported-type catalog under test
    extResult,    \* FileTypeResolver harness: what getFileExtension returned
    extUrlResult  \* FileTypeResolver harness: what extractFileExtensionFromUrl returned

extVars == <<extItem, extTypes, extResult, extUrlResult>>

registryVars == <<capturedDownloads, ignoredDownloads>>

downloadVars == <<browserType, downloads, handlers, capturedDownloads, ignoredDownloads,
                  tabsCreated>>

persistVars == <<settings, storage, writes, changes, toggles>>

fetchVars == <<now, lastFetchTime, fetching, calls, initPc>>

settingsVars == <<settings, storage, writes, changes, toggles, now, lastFetchTime, fetching,
                  calls, initPc>>

vars == <<browserType, downloads, handlers, capturedDownloads, ignoredDownloads,
          tabsCreated, requests, settings, storage, writes, changes, toggles,
          now, lastFetchTime, fetching, calls, initPc,
          extItem, extTypes, extResult, extUrlResult>>

----------------------------------------------------------------------------
(* JavaScript string primitives on sequences of characters.                *)

Undefined == <<"undefined">>

Empty == <<>>

Min(a, b) == IF a < b THEN a ELSE b

Max(a, b) == IF a > b THEN a ELSE b

\* String.prototype.indexOf(c): 0-based index of the first c, -1 when absent.
IndexOf(s, c) ==
    IF \E i \in 1..Len(s) : s[i] = c
    THEN (CHOOSE i \in 1..Len(s) : s[i] = c /\ \A j \in 1..(i-1) : s[j] # c) - 1
    ELSE -1

\* String.prototype.lastIndexOf(c): 0-based index of the last c, -1 when absent.
LastIndexOf(s, c) ==
    IF \E i \in 1..Len(s) : s[i] = c
    THEN (CHOOSE i \in 1..Len(s) : s[i] = c /\ \A j \in (i+1)..Len(s) : s[j] # c) - 1
    ELSE -1

\* String.prototype.includes(c)
Includes(s, c) == \E i \in 1..Len(s) : s[i] = c

\* String.prototype.substring(start, end): both clamped to [0, length], swapped
\* when start > end; the characters start .. end-1 (0-based).
Substring(s, start, end) ==
    LET a == Min(Max(start, 0), Len(s))
        b == Min(Max(end, 0), Len(s))
        lo == Min(a, b)
        hi == Max(a, b)
    IN  [i \in 1..(hi - lo) |-> s[lo + i]]

\* String.prototype.substring(start)
SubstringFrom(s, start) == Substring(s, start, Len(s))

\* String.prototype.startsWith(p)
StartsWith(s, p) ==
    /\ Len(p) <= Len(s)
    /\ \A i \in 1..Len(p) : s[i] = p[i]

UpperToLower ==
    [c \in {"M", "P", "Z", "I", "H", "T", "L"} |->
        CASE c = "M" -> "m" [] c = "P" -> "p" [] c = "Z" -> "z" [] c = "I" -> "i"
          [] c = "H" -> "h" [] c = "T" -> "t" [] c = "L" -> "l"]

\* String.prototype.toLowerCase()
ToLowerCase(s) ==
    [i \in 1..Len(s) |-> IF s[i] \in DOMAIN UpperToLower THEN UpperToLower[s[i]] ELSE s[i]]

\* String.prototype.trim(): leading and trailing blanks removed.
Trim(s) ==
    IF \A i \in 1..Len(s) : s[i] = " "
    THEN Empty
    ELSE LET first == CHOOSE i \in 1..Len(s) : s[i] # " " /\ \A j \in 1..(i-1) : s[j] = " "
             last  == CHOOSE i \in 1..Len(s) : s[i] # " " /\ \A j \in (i+1)..Len(s) : s[j] = " "
         IN  Substring(s, first - 1, last)

\* mimeType.split("/")[1]: the text between the first "/" and the next one.
SplitSlashSecond(s) ==
    LET rest == SubstringFrom(s, IndexOf(s, "/") + 1)
    IN  IF Includes(rest, "/") THEN Substring(rest, 0, IndexOf(rest, "/")) ELSE rest

\* How often x occurs in a sequence.
CountIn(seq, x) == Cardinality({i \in 1..Len(seq) : seq[i] = x})

----------------------------------------------------------------------------
(* FileTypeResolver: src/src/background.ts, getFileExtension and helpers.  *)

\* AppSettings.isContainingFileType over a catalog given as a set of strings.
isContainingFileType(types, fileType) == fileType \in types

\* fileName.substring(fileName.lastIndexOf(".")).toLowerCase().trim()
SuffixFromLastDot(name) == Trim(ToLowerCase(SubstringFrom(name, LastIndexOf(name, "."))))

extractFileExtensionFromUrl(url) ==
    IF url = Undefined \/ url = Empty
    THEN Empty
    ELSE LET fileName == SubstringFrom(url, LastIndexOf(url, "/") + 1)
         IN  IF Includes(fileName, "?")
             THEN Trim(ToLowerCase(Substring(fileName, LastIndexOf(fileName, "."),
                                             IndexOf(fileName, "?"))))
             ELSE SuffixFromLastDot(fileName)

\* "." + mimeType.split("/")[1].toLowerCase()
MimeExtension(mime) == <<".">> \o ToLowerCase(SplitSlashSecond(mime))

HasMimeSubtype(mime) == mime # Undefined /\ mime # Empty /\ Includes(mime, "/")

\* The value of `extension` before the MIME step.
ExtensionBeforeMime(item, types) ==
    IF item.filename # Undefined /\ item.filename # Empty
    THEN SuffixFromLastDot(item.filename)
    ELSE LET fromFinal == extractFileExtensionFromUrl(item.finalUrl)
         IN  IF fromFinal = Empty \/ ~isContainingFileType(types, fromFinal)
             THEN extractFileExtensionFromUrl(item.url)
             ELSE fromFinal

\* A slip the chain could contain: the original URL is consulted before the
\* final URL.
getFileExtensionUrlOrderSwapped(item, types) ==
    LET swapped == [item EXCEPT !.finalUrl = item.url, !.url = item.finalUrl]
        extension == ExtensionBeforeMime(swapped, types)
    IN  IF (extension = Empty \/ ~isContainingFileType(types, extension))
            /\ HasMimeSubtype(item.mime)
        THEN MimeExtension(item.mime)
        ELSE extension

getFileExtension(item, types) ==
    LET extension == ExtensionBeforeMime(item, types)
    IN  IF (extension = Empty \/ ~isContainingFileType(types, extension))
            /\ HasMimeSubtype(item.mime)
        THEN MimeExtension(item.mime)
        ELSE extension

----------------------------------------------------------------------------
(* AppSettings: src/utils/app-settings.ts.                                 *)

DotZip == <<".", "z", "i", "p">>

DotMp4 == <<".", "m", "p", "4">>

DotHtml == <<".", "h", "t", "m", "l">>

DotBin == <<".", "b", "i", "n">>

NoSettings == [absent |-> TRUE]

\* The constructor's _settings (lastCheckForUpdates belongs to the update check,
\* which no handler modelled here reads).
DefaultSettings == [enabled |-> TRUE, supportedFileTypes |-> {}]

\* AppSettings.isEnabled()
isEnabled(st) == st.enabled

\* { ...this._settings, ...newSettings }: every key of the stored object wins.
MergeSettings(st, newSettings) ==
    [enabled |-> newSettings.enabled, supportedFileTypes |-> newSettings.supportedFileTypes]

----------------------------------------------------------------------------
(* The browser's downloads and the notifications it delivers.              *)

MaxId == 2

Ids == 1..MaxId

Kinds == {"naming", "created"}

Handlers == Ids \X Kinds

HandlersOf(id) == {<<id, kind>> : kind \in Kinds}

Http == <<"h", "t", "t", "p", ":", "/", "/", "h", "/">>

ZipUrl == Http \o <<"a">> \o DotZip

RedirectUrl == Http \o <<"d", "l", "?", "f", "=", "a">> \o DotZip

PageUrl == Http \o <<"p">>

BlobUrl == <<"b", "l", "o", "b", ":", "x">>

ZipName == <<"a">> \o DotZip

ZipMime == <<"a", "p", "p", "/", "Z", "I", "P">>

\* A direct download of a supported type.
ZipDownload == [url |-> ZipUrl, finalUrl |-> ZipUrl, filename |-> ZipName, mime |-> ZipMime]

\* The same file reached through a redirecting link.
RedirectedDownload ==
    [url |-> RedirectUrl, finalUrl |-> ZipUrl, filename |-> ZipName, mime |-> Empty]

\* A download of a type the catalog does not hold.
PageDownload ==
    [url |-> PageUrl, finalUrl |-> PageUrl, filename |-> <<"p">> \o DotHtml,
     mime |-> <<"t", "e", "x", "t">>]

\* A download the page generated itself.
BlobDownload == [url |-> BlobUrl, finalUrl |-> BlobUrl, filename |-> ZipName, mime |-> ZipMime]

DownloadKinds == <<ZipDownload, RedirectedDownload, PageDownload, BlobDownload>>

\* The downloads the browser may hold: download ids are interchangeable labels,
\* so one assignment per unordered choice of kinds is kept.
DownloadAssignments ==
    { [id \in Ids |-> DownloadKinds[k[id]]] :
        k \in { f \in [Ids -> DOMAIN DownloadKinds] :
                   \A i, j \in Ids : i <= j => f[i] <= f[j] } }

NoItem == [url |-> Empty, finalUrl |-> Undefined, filename |-> Empty, mime |-> Empty]

\* No request built yet.
NoData == <<>>

NotRun == <<"not run">>

\* No refresh of the supported-type catalog in progress.
FetchIdle ==
    /\ now = 0
    /\ lastFetchTime = 0
    /\ fetching = 0
    /\ calls = <<>>
    /\ initPc = "ready"

\* The FileTypeResolver harness at rest.
ExtIdle ==
    /\ extItem = NoItem
    /\ extTypes = {}
    /\ extResult = NotRun
    /\ extUrlResult = NotRun

Null == <<"null">>

IdleHandler ==
    [pc |-> "idle", item |-> NoItem, data |-> NoData, outcome |-> "none",
     evaluated |-> FALSE, enabledAtEval |-> FALSE, ignoredAtEval |-> FALSE,
     unsupportedAtEval |-> FALSE,
     events |-> <<>>, cancelOk |-> FALSE, ahead |-> {},
     suggests |-> 0, cancels |-> 0, erases |-> 0, erased |-> FALSE, posts |-> 0,
     tabs |-> 0, tabCall |-> "none", escaped |-> 0]

\* The DownloadItem a notification carries. On Chromium the target filename is
\* determined after the download was created (that is what the naming
\* notification is for), so the creation notification carries none; Firefox
\* has no naming notification and its creation notification carries the name.
Snapshot(id, kind) ==
    IF kind = "created" /\ browserType = "Chromium"
    THEN [downloads[id] EXCEPT !.filename = Empty]
    ELSE downloads[id]

----------------------------------------------------------------------------
(* utils.isUnsupportedProtocol: src/src/utils/utilities.ts.                *)

unsupportedProtocols ==
    { <<"b", "l", "o", "b", ":">>, <<"d", "a", "t", "a", ":">>,
      <<"m", "a", "i", "l", "t", "o", ":">>, <<"t", "e", "l", ":">>,
      <<"s", "m", "s", ":">>, <<"f", "i", "l", "e", ":">>, <<"f", "t", "p", ":">>,
      <<"c", "h", "r", "o", "m", "e", ":">>, <<"e", "d", "g", "e", ":">>,
      <<"a", "b", "o", "u", "t", ":">>,
      <<"j", "a", "v", "a", "s", "c", "r", "i", "p", "t", ":">> }

isUnsupportedProtocol(url) == \E protocol \in unsupportedProtocols : StartsWith(url, protocol)

----------------------------------------------------------------------------
(* DownloadInterceptor: src/src/background.ts, handleDownload.             *)

\* downloadItem.finalUrl ?? downloadItem.url
DownloadItemUrl(item) == IF item.finalUrl # Undefined THEN item.finalUrl ELSE item.url

\* A slip: the ignore set is never consulted.
IsIgnoredNever(item, ignored) == FALSE

\* ignoredDownloads.has(finalUrl) || ignoredDownloads.has(url)
IsIgnored(item, ignored) == item.finalUrl \in ignored \/ item.url \in ignored

\* A slip: the enabled check of line 190 is missing.
handleDownloadBranchNoEnabledCheck(item, id, hasSuggest, st, ignored, captured) ==
    IF IsIgnored(item, ignored) THEN "return"
    ELSE IF isUnsupportedProtocol(DownloadItemUrl(item)) THEN "return"
    ELSE IF ~isContainingFileType(st.supportedFileTypes,
                                  getFileExtension(item, st.supportedFileTypes))
         THEN "return"
    ELSE IF hasSuggest THEN "suggest"
    ELSE IF id \notin captured THEN "cancel"
    ELSE "dispatch"

\* A slip: the ignore check of line 198 looks at the original url only.
handleDownloadBranchIgnoreByUrlOnly(item, id, hasSuggest, st, ignored, captured) ==
    IF ~isEnabled(st) THEN "return"
    ELSE IF item.url \in ignored THEN "return"
    ELSE IF isUnsupportedProtocol(DownloadItemUrl(item)) THEN "return"
    ELSE IF ~isContainingFileType(st.supportedFileTypes,
                                  getFileExtension(item, st.supportedFileTypes))
         THEN "return"
    ELSE IF hasSuggest THEN "suggest"
    ELSE IF id \notin captured THEN "cancel"
    ELSE "dispatch"

\* A slip: the protocol check of line 204 is missing.
handleDownloadBranchNoProtocolCheck(item, id, hasSuggest, st, ignored, captured) ==
    IF ~isEnabled(st) THEN "return"
    ELSE IF IsIgnored(item, ignored) THEN "return"
    ELSE IF ~isContainingFileType(st.supportedFileTypes,
                                  getFileExtension(item, st.supportedFileTypes))
         THEN "return"
    ELSE IF hasSuggest THEN "suggest"
    ELSE IF id \notin captured THEN "cancel"
    ELSE "dispatch"

\* The synchronous head of handleDownload, lines 188-239: which way the
\* handler goes before its first await.
\*   "return"   one of the early returns: the download is left to the browser
\*   "suggest"  onDeterminingFilename: suggest, then cancel and erase
\*   "cancel"   onCreated, id not captured: cancel and erase, then dispatch
\*   "dispatch" onCreated, id already captured: dispatch only
handleDownloadBranch(item, id, hasSuggest, st, ignored, captured) ==
    IF ~isEnabled(st) THEN "return"
    ELSE IF IsIgnored(item, ignored) THEN "return"
    ELSE IF isUnsupportedProtocol(DownloadItemUrl(item)) THEN "return"
    ELSE IF ~isContainingFileType(st.supportedFileTypes,
                                  getFileExtension(item, st.supportedFileTypes))
         THEN "return"
    ELSE IF hasSuggest THEN "suggest"
    ELSE IF id \notin captured THEN "cancel"
    ELSE "dispatch"

\* A slip: the download is cancelled before suggest is called.
CaptureCallsCancelFirst(branch) ==
    CASE branch = "suggest" -> <<"cancel", "suggest">>
      [] branch = "cancel"  -> <<"cancel">>
      [] OTHER              -> <<>>

\* The browser calls handleDownload issues, in order, before its first await:
\* suggest(...) and chrome.downloads.cancel (lines 222-225), or
\* chrome.downloads.cancel alone (line 240).
CaptureCalls(branch) ==
    CASE branch = "suggest" -> <<"suggest", "cancel">>
      [] branch = "cancel"  -> <<"cancel">>
      [] OTHER              -> <<>>

\* getDownloadData(downloadItem): the request's url and isBrowserNative (referer,
\* pageAddress and description are carried along and never read again).
\* A slip: the request of a captured download is not flagged browser-native.
getDownloadDataNotNative(item) == [url |-> DownloadItemUrl(item), isBrowserNative |-> FALSE]

getDownloadData(item) == [url |-> DownloadItemUrl(item), isBrowserNative |-> TRUE]

\* A slip: ignoreDownloadsAndStartInBrowser without its filter.
nativeBrowserDownloadsUnfiltered(data) == data

\* ignoreDownloadsAndStartInBrowser: the items it ignores and re-opens.
nativeBrowserDownloads(data) == SelectSeq(data, LAMBDA item : item.isBrowserNative)

\* The outcomes of the POST awaited in downloadFile:
\*   "accepted"      2xx, response.isSuccessful
\*   "rejected"      2xx, !response.isSuccessful
\*   "httpError"     HttpClient._handleError throws for a non-2xx status
\*   "networkError"  HttpClient._handleError throws: no response received
PostOutcomes == {"accepted", "rejected", "httpError", "networkError"}

\* A slip: the fallback runs whatever the answer was.
CallsIgnoreAndStartAlways(outcome) == TRUE

\* downloadFile after the POST settled: whether ignoreDownloadsAndStartInBrowser
\* is called (line 306), or the throw is caught and logged (line 318).
CallsIgnoreAndStart(outcome) == outcome = "rejected"

\* downloadFile(data) after the POST settled: the requests that
\* ignoreDownloadsAndStartInBrowser ignores and re-opens.
Reopened(data, outcome) ==
    IF CallsIgnoreAndStart(outcome) THEN nativeBrowserDownloads(data) ELSE <<>>

\* A slip: the fallback keeps only the urls of its own batch.
IgnoredReplaced(ignored, native) == {native[i].url : i \in DOMAIN native}

\* A slip: the url is added behind the await of tabs.create, not before it.
IgnoredBehindOpen(ignored, native) == ignored

\* ignoreDownloadsAndStartInBrowser up to its first await: the ignore set at
\* the moment chrome.tabs.create is called for the first native request
\* (ignoredDownloads.add(url), line 849). Nothing in the program deletes from
\* the set.
IgnoredAtOpen(ignored, native) ==
    IF native = <<>> THEN ignored ELSE ignored \cup {native[1].url}

\* chrome.downloads.onCreated: the listener starts the 500/100 ms delay.
DownloadCreated(id) ==
    /\ handlers[<<id, "created">>].pc = "idle"
    /\ handlers' = [handlers EXCEPT ![<<id, "created">>] =
                        [@ EXCEPT !.pc = "delay", !.item = Snapshot(id, "created")]]
    /\ UNCHANGED <<browserType, downloads, registryVars, tabsCreated, requests, settingsVars,
                   extVars>>

\* The protocol check of line 204 or the file-type check of line 212 turns the
\* download away.
IsUnsupported(item, st) ==
    \/ isUnsupportedProtocol(DownloadItemUrl(item))
    \/ ~isContainingFileType(st.supportedFileTypes,
                             getFileExtension(item, st.supportedFileTypes))

\* The invocation is over but for its release timer, and it either left the
\* download to the browser (an early return: nothing cancelled, nothing sent)
\* or its dispatch POST settled.
Terminal(g) ==
    /\ handlers[g].pc \in {"release", "done"}
    /\ handlers[g].evaluated
    /\ \/ handlers[g].cancels = 0 /\ handlers[g].posts = 0
       \/ handlers[g].outcome \in PostOutcomes

\* The ids whose creation listener's 500/100 ms timer is pending when handler h
\* starts its 3000 ms release timer. setTimeout runs a timer that was started
\* earlier with a shorter delay first, so the release waits for these.
DelaysAhead(h) ==
    {i \in Ids : <<i, "created">> # h /\ handlers[<<i, "created">>].pc = "delay"}

\* handleDownload up to its first await, for handler h with the given item.
HandleDownloadHead(h, item, hasSuggest) ==
    LET id == h[1]
        branch == handleDownloadBranch(item, id, hasSuggest, settings,
                                       ignoredDownloads, capturedDownloads)
        seen == [handlers[h] EXCEPT !.item = item, !.evaluated = TRUE,
                                    !.enabledAtEval = isEnabled(settings),
                                    !.ignoredAtEval = IsIgnored(item, ignoredDownloads),
                                    !.unsupportedAtEval = IsUnsupported(item, settings)]
        issued == CaptureCalls(branch)
    IN  /\ handlers' = [g \in Handlers |->
             IF g = h
             THEN [seen EXCEPT !.pc = CASE branch = "return"   -> "release"
                                        [] branch = "suggest"  -> "cancel"
                                        [] branch = "cancel"   -> "cancel"
                                        [] branch = "dispatch" -> "tab",
                               !.ahead = IF branch = "return" THEN DelaysAhead(h) ELSE {},
                               !.events = issued,
                               !.suggests = CountIn(issued, "suggest"),
                               !.cancels = CountIn(issued, "cancel")]
             ELSE IF h[2] = "created"
                  THEN [handlers[g] EXCEPT !.ahead = @ \ {id}]
                  ELSE handlers[g]]
        /\ UNCHANGED <<browserType, downloads, registryVars, tabsCreated, requests, settingsVars,
                   extVars>>

\* chrome.downloads.onDeterminingFilename (registered on Chromium only).
DeterminingFilename(id) ==
    /\ browserType = "Chromium"
    /\ handlers[<<id, "naming">>].pc = "idle"
    /\ HandleDownloadHead(<<id, "naming">>, Snapshot(id, "naming"), TRUE)

\* The creation listener's delay elapsed: handleDownload(downloadItem).
DelayElapsed(id) ==
    /\ handlers[<<id, "created">>].pc = "delay"
    /\ HandleDownloadHead(<<id, "created">>, handlers[<<id, "created">>].item, FALSE)

\* await chrome.downloads.cancel(id) settled; a rejection goes to the catch.
CancelSettled(h) ==
    /\ handlers[h].pc = "cancel"
    /\ \E ok \in BOOLEAN :
         handlers' = [handlers EXCEPT ![h] =
             IF ok THEN [@ EXCEPT !.pc = "erase", !.erases = 1, !.cancelOk = TRUE,
                                  !.events = Append(@, "erase")]
                   ELSE [@ EXCEPT !.pc = "release", !.ahead = DelaysAhead(h)]]
    /\ UNCHANGED <<browserType, downloads, registryVars, tabsCreated, requests, settingsVars,
                   extVars>>

\* A slip: a rejected erase does not stop the creation handler.
AfterEraseIgnoresFailure(ok, kind) == IF kind = "created" THEN "tab" ELSE "release"

\* Where handleDownload goes when the erase settled: a rejection goes to the
\* catch (line 253) and the finally; the suggest branch returns after the add
\* (line 232); the creation branch goes on to getDownloadData (line 250).
AfterErase(ok, kind) == IF ok /\ kind = "created" THEN "tab" ELSE "release"

\* await chrome.downloads.erase({id}) settled; then capturedDownloads.add(id).
EraseSettled(h) ==
    /\ handlers[h].pc = "erase"
    /\ \E ok \in BOOLEAN :
         /\ handlers' = [handlers EXCEPT ![h] =
                [@ EXCEPT !.pc = AfterErase(ok, h[2]), !.erased = ok,
                          !.ahead = IF AfterErase(ok, h[2]) = "release"
                                    THEN DelaysAhead(h) ELSE @]]
         /\ capturedDownloads' = IF ok THEN capturedDownloads \cup {h[1]}
                                       ELSE capturedDownloads
    /\ UNCHANGED <<browserType, downloads, ignoredDownloads, tabsCreated, requests,
                   settingsVars, extVars>>

\* getDownloadData: await getActiveTab() settled; downloadFile([data]) issues
\* the POST.
ActiveTabSettled(h) ==
    /\ handlers[h].pc = "tab"
    /\ handlers' = [handlers EXCEPT ![h] =
           [@ EXCEPT !.pc = "post", !.posts = 1, !.events = Append(@, "post"),
                     !.data = <<getDownloadData(handlers[h].item)>>]]
    /\ UNCHANGED <<browserType, downloads, registryVars, tabsCreated, requests, settingsVars,
                   extVars>>

\* downloadFile: the POST settled. ignoreDownloadsAndStartInBrowser runs up to
\* its first await inside this step: it adds the url and calls tabs.create.
\* handleDownload hands downloadFile one request, so the loop body runs once.
PostSettled(h) ==
    /\ handlers[h].pc = "post"
    /\ \E outcome \in PostOutcomes :
         LET native == Reopened(handlers[h].data, outcome)
         IN  /\ handlers' = [handlers EXCEPT ![h] =
                    [@ EXCEPT !.pc = "release", !.outcome = outcome,
                              !.ahead = DelaysAhead(h),
                              !.tabs = IF native # <<>> THEN 1 ELSE 0,
                              !.tabCall = IF native # <<>> THEN "pending" ELSE "none"]]
             /\ ignoredDownloads' = IgnoredAtOpen(ignoredDownloads, native)
             /\ tabsCreated' = IF native # <<>>
                               THEN tabsCreated \cup {native[1].url}
                               ELSE tabsCreated
    /\ UNCHANGED <<browserType, downloads, capturedDownloads, requests, settingsVars, extVars>>

\* ignoreDownloadsAndStartInBrowser: await chrome.tabs.create settled. The
\* function has no try/catch and downloadFile calls it without await (line
\* 309), so its rejection is handled by nobody.
TabCreateSettled(h) ==
    /\ handlers[h].tabCall = "pending"
    /\ \E ok \in BOOLEAN :
         handlers' = [handlers EXCEPT ![h] =
             IF ok THEN [@ EXCEPT !.tabCall = "resolved"]
                   ELSE [@ EXCEPT !.tabCall = "rejected", !.escaped = @ + 1]]
    /\ UNCHANGED <<browserType, downloads, registryVars, tabsCreated, requests, settingsVars,
                   extVars>>

\* The release empties the captured set.
ReleaseCapturedAll(id, captured) == {}

\* The callback of the release timer: capturedDownloads.has(id) and then
\* capturedDownloads.delete(id).
ReleaseCaptured(id, captured) == captured \ {id}

\* finally: the 3000 ms timer of utils.runWithDelay fired, after the shorter
\* timers that were pending when it was started.
ReleaseTimer(h) ==
    /\ handlers[h].pc = "release"
    /\ handlers[h].ahead = {}
    /\ handlers' = [handlers EXCEPT ![h] = [@ EXCEPT !.pc = "done"]]
    /\ capturedDownloads' = ReleaseCaptured(h[1], capturedDownloads)
    /\ UNCHANGED <<browserType, downloads, ignoredDownloads, tabsCreated, requests,
                   settingsVars, extVars>>

----------------------------------------------------------------------------
(* MessageRouter and context menu: src/src/background.ts, handleMessages,  *)
(* handleSingleItemContextMenuClick, handleMultipleItemsContextMenuClick.  *)

MaxRequests == 1

RequestSlots == 1..MaxRequests

\* No message received.
NoMessage == [type |-> "none", url |-> Undefined]

IdleRequest ==
    [pc |-> "idle", origin |-> "none", message |-> NoMessage, events |-> <<>>,
     data |-> NoData, described |-> 0,
     outcome |-> "none", responses |-> 0, ack |-> "none", posts |-> 0, tabs |-> 0]

\* Invocations take the slots in order.
FreeSlot(r) ==
    /\ requests[r].pc = "idle"
    /\ \A q \in RequestSlots : q < r => requests[q].pc # "idle"

\* The messages a page script or popup may send (type "undefined": a message
\* without type).
Messages ==
    { [type |-> "download_media", url |-> ZipUrl],
      [type |-> "download_media", url |-> Empty],
      [type |-> "download_media", url |-> Undefined],
      [type |-> "other", url |-> ZipUrl],
      [type |-> "undefined", url |-> Undefined] }

\* The OnClickData of a click on the single-item entry (mediaType "undefined":
\* the click was not on a media element).
ClickInfos ==
    [mediaType : {"undefined", "image", "video", "audio"},
     linkUrl : {Undefined, ZipUrl},
     srcUrl : {Undefined, PageUrl}]

\* The hrefs a selection can hold (a.href of an a[href] element, or the
\* selected text when it parses as a URL): never empty.
LinkLists == { <<>>, <<ZipUrl>>, <<ZipUrl, PageUrl>> }

\* The request of a page message or a context-menu click.
PageRequest(url) == [url |-> url, isBrowserNative |-> FALSE]

\* !value for a string field: undefined and "" are falsy.
Falsy(value) == value = Undefined \/ value = Empty

\* A slip: the url check of line 368 is missing.
handleMessagesBranchNoUrlCheck(message) ==
    IF message.type = "download_media" THEN "dispatch" ELSE "invalid"

\* handleMessages, the switch on message?.type:
\*   "noUrl"    download_media without url: rejected
\*   "dispatch" download_media with url: acknowledged, then dispatched
\*   "invalid"  any other type: rejected
handleMessagesBranch(message) ==
    IF message.type = "download_media"
    THEN IF Falsy(message.url) THEN "noUrl" ELSE "dispatch"
    ELSE "invalid"

\* A slip: the POST is issued before the acknowledgment.
handleMessagesCallsPostFirst(branch) ==
    IF branch = "dispatch" THEN <<"post", "sendResponse">> ELSE <<"sendResponse">>

\* The calls handleMessages makes before its first await, in order: the
\* sendResponse of line 369, 373 or 392 and, on the dispatch branch, the
\* client.post of downloadFile.
handleMessagesCalls(branch) ==
    IF branch = "dispatch" THEN <<"sendResponse", "post">> ELSE <<"sendResponse">>

\* chrome.runtime.onMessage: handleMessages up to its first await.
handleMessages(r) ==
    /\ FreeSlot(r)
    /\ \E message \in Messages :
         LET branch == handleMessagesBranch(message)
             made == handleMessagesCalls(branch)
         IN  requests' = [requests EXCEPT ![r] =
                 IF branch = "dispatch"
                 THEN [@ EXCEPT !.pc = "post", !.origin = "message", !.message = message,
                                !.events = made,
                                !.responses = CountIn(made, "sendResponse"),
                                !.ack = "received", !.posts = CountIn(made, "post"),
                                !.data = <<PageRequest(message.url)>>]
                 ELSE [@ EXCEPT !.pc = "done", !.origin = "message", !.message = message,
                                !.events = made,
                                !.responses = CountIn(made, "sendResponse"),
                                !.posts = CountIn(made, "post"),
                                !.ack = "rejected"]]
    /\ UNCHANGED <<downloadVars, settingsVars, extVars>>

\* The url handleSingleItemContextMenuClick picks (lines 418-441).
SingleItemUrl(info) ==
    IF info.mediaType # "undefined"
    THEN CASE info.mediaType = "image" -> info.linkUrl
           [] info.mediaType \in {"video", "audio"} -> info.srcUrl
           [] OTHER -> Empty
    ELSE IF ~Falsy(info.linkUrl) THEN info.linkUrl ELSE Empty

\* The "cdm-single-item" entry was clicked: up to the await of
\* getLinkDescriptionFromPage.
handleSingleItemContextMenuClick(r) ==
    /\ FreeSlot(r)
    /\ \E info \in ClickInfos :
         requests' = [requests EXCEPT ![r] =
             IF Falsy(SingleItemUrl(info))
             THEN [@ EXCEPT !.pc = "done", !.origin = "single"]
             ELSE [@ EXCEPT !.pc = "describe", !.origin = "single",
                            !.data = <<PageRequest(SingleItemUrl(info))>>]]
    /\ UNCHANGED <<downloadVars, settingsVars, extVars>>

\* The "cdm-multiple-items" entry was clicked: up to the await of
\* extractLinksFromSelection.
handleMultipleItemsContextMenuClick(r) ==
    /\ FreeSlot(r)
    /\ requests' = [requests EXCEPT ![r] = [@ EXCEPT !.pc = "extract", !.origin = "multiple"]]
    /\ UNCHANGED <<downloadVars, settingsVars, extVars>>

\* extractLinksFromSelection settled with the selection's links.
LinksExtracted(r) ==
    /\ requests[r].pc = "extract"
    /\ \E links \in LinkLists :
         requests' = [requests EXCEPT ![r] =
             IF Len(links) > 0
             THEN [@ EXCEPT !.pc = "describe",
                            !.data = [i \in 1..Len(links) |-> PageRequest(links[i])]]
             ELSE [@ EXCEPT !.pc = "done"]]
    /\ UNCHANGED <<downloadVars, settingsVars, extVars>>

\* One await of getLinkDescriptionFromPage settled (it never throws); after the
\* last one downloadFile issues the POST.
DescriptionSettled(r) ==
    /\ requests[r].pc = "describe"
    /\ requests' = [requests EXCEPT ![r] =
           IF requests[r].described + 1 = Len(requests[r].data)
           THEN [@ EXCEPT !.described = @ + 1, !.pc = "post", !.posts = 1,
                          !.events = Append(@, "post")]
           ELSE [@ EXCEPT !.described = @ + 1]]
    /\ UNCHANGED <<downloadVars, settingsVars, extVars>>

\* downloadFile: the POST of a page or context-menu request settled.
RequestPostSettled(r) ==
    /\ requests[r].pc = "post"
    /\ \E outcome \in PostOutcomes :
         LET native == Reopened(requests[r].data, outcome)
         IN  /\ requests' = [requests EXCEPT ![r] =
                    [@ EXCEPT !.pc = "done", !.outcome = outcome,
                              !.tabs = IF native # <<>> THEN 1 ELSE 0]]
             /\ ignoredDownloads' = IgnoredAtOpen(ignoredDownloads, native)
             /\ tabsCreated' = IF native # <<>>
                               THEN tabsCreated \cup {native[1].url}
                               ELSE tabsCreated
    /\ UNCHANGED <<browserType, downloads, handlers, capturedDownloads, settingsVars,
                   extVars>>

----------------------------------------------------------------------------
(* Icon click and persistence: background.ts actionOnClickedAction,        *)
(* AppSettings.set, _saveToStorage and the storage change listener.        *)

MaxToggles == 1

\* AppSettings.set(key, value) on an existing key whose value differs: the
\* in-memory settings change at once, then _saveToStorage issues the write of
\* the object as it is now.
SetSetting(newSettings) ==
    /\ settings' = newSettings
    /\ writes' = Append(writes, newSettings)

MaxClicks == 2

\* chrome.action.onClicked: appSettings.set("enabled", !appSettings.isEnabled()),
\* for at most max clicks.
ClickIcon(max) ==
    /\ toggles < max
    /\ toggles' = toggles + 1
    /\ SetSetting([settings EXCEPT !.enabled = ~isEnabled(settings)])
    /\ UNCHANGED <<storage, changes, fetchVars, downloadVars, requests, extVars>>

actionOnClickedAction == ClickIcon(MaxToggles)

\* chrome.storage.local.set resolved: the value is stored and, when it differs
\* from the stored one, a change event is queued.
StorageWriteDone ==
    /\ writes # <<>>
    /\ storage' = Head(writes)
    /\ writes' = Tail(writes)
    /\ changes' = IF storage # Head(writes) THEN Append(changes, Head(writes)) ELSE changes
    /\ UNCHANGED <<settings, toggles, fetchVars, downloadVars, requests, extVars>>

\* A slip: a rejected write puts the stored settings back in memory.
StorageWriteFailedRollsBack ==
    /\ writes # <<>>
    /\ writes' = Tail(writes)
    /\ settings' = storage
    /\ UNCHANGED <<storage, changes, toggles, fetchVars, downloadVars, requests, extVars>>

\* chrome.storage.local.set rejected: _saveToStorage logs and rethrows, the
\* caller's catch logs.
StorageWriteFailed ==
    /\ writes # <<>>
    /\ writes' = Tail(writes)
    /\ UNCHANGED <<settings, storage, changes, toggles, fetchVars, downloadVars, requests,
                   extVars>>

\* A slip: the newest change event is delivered first.
StorageChangedNewestFirst ==
    /\ changes # <<>>
    /\ settings' = MergeSettings(settings, changes[Len(changes)])
    /\ changes' = SubSeq(changes, 1, Len(changes) - 1)
    /\ UNCHANGED <<storage, writes, toggles, fetchVars, downloadVars, requests, extVars>>

\* The chrome.storage.onChanged listener of _addChangeListener.
StorageChanged ==
    /\ changes # <<>>
    /\ settings' = MergeSettings(settings, Head(changes))
    /\ changes' = Tail(changes)
    /\ UNCHANGED <<storage, writes, toggles, fetchVars, downloadVars, requests, extVars>>

----------------------------------------------------------------------------
(* Supported-type refresh: AppSettings.updateSupportedFileTypes.           *)

\* 5 * 60 * 1000 ms, in minutes.
FetchWindow == 5

MaxTime == 6

MaxCalls == 3

SettingsCatalogs == { {}, {DotZip}, {DotZip, DotMp4} }

DotZipUpper == <<".", "Z", "I", "P">>

ZipNoDot == <<"z", "i", "p">>

\* response.data of the GET: whatever array the application answers with.
CatalogResponses == SettingsCatalogs \cup { {DotZipUpper}, {ZipNoDot} }

\* A slip: the window is not checked at all.
FetchIsDueAlways(time, last) == TRUE

\* Line 116 negated: the call goes on to fetch.
FetchIsDue(time, last) == ~(time - last < FetchWindow)

\* A slip: line 122 is missing, lastFetchTime stays as it was.
LastFetchTimeKept(due, time, last) == last

\* this.lastFetchTime after the call passed line 116: `now` (line 122, set
\* before the GET is issued) when the call fetches, unchanged when it returns.
LastFetchTimeAfter(due, time, last) == IF due THEN time ELSE last

\* Date.now() advances.
Tick ==
    /\ now < MaxTime
    /\ now' = now + 1
    /\ UNCHANGED <<lastFetchTime, fetching, calls, initPc, persistVars, downloadVars,
                   requests, extVars>>

\* chrome.tabs.onCreated: updateSupportedFileTypes() up to its first await.
updateSupportedFileTypes ==
    /\ Len(calls) < MaxCalls
    /\ LET due == FetchIsDue(now, lastFetchTime)
       IN  /\ lastFetchTime' = LastFetchTimeAfter(due, now, lastFetchTime)
           /\ fetching' = IF due THEN fetching + 1 ELSE fetching
           /\ calls' = Append(calls, [time |-> now, fetched |-> due, inFlight |-> fetching,
                                      outcome |-> IF due THEN "pending" ELSE "none"])
    /\ UNCHANGED <<now, initPc, persistVars, downloadVars, requests, extVars>>

\* How the GET of the catalog can settle:
\*   "success"       a response with isSuccessful = true
\*   "unsuccessful"  a response with isSuccessful = false
\*   "threw"         client.get threw (HttpClient._handleError)
FetchOutcomes == {"success", "unsuccessful", "threw"}

\* A slip: response.data is stored without the isSuccessful test of line 129.
StoresFetchedUnlessThrown(outcome) == outcome # "threw"

\* Whether updateSupportedFileTypes reaches set("supportedFileTypes", ...).
StoresFetched(outcome) == outcome = "success"

\* The GET of call i settled. A throw and an unsuccessful response are logged;
\* a successful response is stored with set("supportedFileTypes",
\* response.data), whose value is a new array and so always differs from the
\* current one.
FetchSettled ==
    /\ fetching > 0
    /\ \E i \in 1..Len(calls), outcome \in FetchOutcomes, data \in CatalogResponses :
         /\ calls[i].outcome = "pending"
         /\ calls' = [calls EXCEPT ![i].outcome = outcome]
         /\ fetching' = fetching - 1
         /\ IF StoresFetched(outcome)
            THEN SetSetting([settings EXCEPT !.supportedFileTypes = data])
            ELSE UNCHANGED <<settings, writes>>
    /\ UNCHANGED <<storage, changes, toggles, now, lastFetchTime, initPc, downloadVars,
                   requests, extVars>>

\* After AppSettings.getInstance(): _initialize has called
\* updateSupportedFileTypes at time 0 and loaded the storage.
InitSettings ==
    /\ settings \in [enabled : BOOLEAN, supportedFileTypes : SettingsCatalogs]
    /\ storage = settings
    /\ writes = <<>>
    /\ changes = <<>>
    /\ toggles = 0
    /\ now = 0
    /\ lastFetchTime = 0
    /\ fetching = 0
    /\ calls \in { << [time |-> 0, fetched |-> TRUE, inFlight |-> 0, outcome |-> o] >> :
                      o \in FetchOutcomes }
    /\ initPc = "ready"
    /\ browserType = "Chromium"
    /\ downloads = [id \in Ids |-> ZipDownload]
    /\ handlers = [h \in Handlers |-> IdleHandler]
    /\ capturedDownloads = {}
    /\ ignoredDownloads = {}
    /\ tabsCreated = {}
    /\ requests = [r \in RequestSlots |-> IdleRequest]
    /\ ExtIdle

NextSettings ==
    \/ Tick
    \/ updateSupportedFileTypes
    \/ FetchSettled
    \/ actionOnClickedAction
    \/ StorageWriteDone
    \/ StorageWriteFailed
    \/ StorageChanged

SpecSettings == InitSettings /\ [][NextSettings]_vars

----------------------------------------------------------------------------
(* AppSettings.getInstance() at the start of the service worker: new       *)
(* AppSettings(), then _initialize().                                      *)

\* What chrome.storage.local may hold when the service worker starts.
StoredSettings ==
    {NoSettings} \cup [enabled : BOOLEAN, supportedFileTypes : SettingsCatalogs]

\* After the constructor (lines 44-53), _initialize has called
\* updateSupportedFileTypes (line 75): lastFetchTime is 0, so the call fetches
\* and awaits the GET.
InitStart ==
    /\ settings = DefaultSettings
    /\ storage \in StoredSettings
    /\ writes = <<>>
    /\ changes = <<>>
    /\ toggles = 0
    /\ now = 0
    /\ lastFetchTime = 0
    /\ fetching = 1
    /\ calls = << [time |-> 0, fetched |-> TRUE, inFlight |-> 0, outcome |-> "pending"] >>
    /\ initPc = "fetch"
    /\ browserType = "Chromium"
    /\ downloads = [id \in Ids |-> ZipDownload]
    /\ handlers = [h \in Handlers |-> IdleHandler]
    /\ capturedDownloads = {}
    /\ ignoredDownloads = {}
    /\ tabsCreated = {}
    /\ requests = [r \in RequestSlots |-> IdleRequest]
    /\ ExtIdle

\* The GET of the first updateSupportedFileTypes settled: a successful answer
\* goes to set("supportedFileTypes", response.data), which changes the settings
\* in memory and awaits _saveToStorage; anything else is logged.
InitFetchSettled ==
    /\ initPc = "fetch"
    /\ \E outcome \in FetchOutcomes, data \in CatalogResponses :
         /\ calls' = [calls EXCEPT ![1].outcome = outcome]
         /\ fetching' = 0
         /\ IF StoresFetched(outcome)
            THEN /\ SetSetting([settings EXCEPT !.supportedFileTypes = data])
                 /\ initPc' = "save"
            ELSE /\ UNCHANGED <<settings, writes>>
                 /\ initPc' = "load"
    /\ UNCHANGED <<storage, changes, toggles, now, lastFetchTime, downloadVars, requests,
                   extVars>>

\* The write of that set() settled. The change listener is not registered yet
\* (line 77), so nobody hears the change; a rejection is caught by
\* updateSupportedFileTypes (line 137). _initialize goes on to _loadFromStorage.
InitSaveSettled ==
    /\ initPc = "save"
    /\ \E ok \in BOOLEAN :
         storage' = IF ok THEN Head(writes) ELSE storage
    /\ writes' = Tail(writes)
    /\ initPc' = "load"
    /\ UNCHANGED <<settings, changes, toggles, now, lastFetchTime, fetching, calls,
                   downloadVars, requests, extVars>>

\* _loadFromStorage: the stored object is spread over the settings in memory;
\* with nothing stored the settings in memory are saved.
loadFromStorage ==
    /\ initPc = "load"
    /\ IF storage # NoSettings
       THEN /\ settings' = MergeSettings(settings, storage)
            /\ initPc' = "ready"
            /\ UNCHANGED writes
       ELSE /\ writes' = Append(writes, settings)
            /\ initPc' = "saveDefaults"
            /\ UNCHANGED settings
    /\ UNCHANGED <<storage, changes, toggles, now, lastFetchTime, fetching, calls,
                   downloadVars, requests, extVars>>

\* The write of _loadFromStorage settled; its rejection is rethrown by
\* _loadFromStorage and _initialize, and getInstance() rejects.
InitDefaultsSaved ==
    /\ initPc = "saveDefaults"
    /\ \E ok \in BOOLEAN :
         /\ storage' = IF ok THEN Head(writes) ELSE storage
         /\ initPc' = IF ok THEN "ready" ELSE "failed"
    /\ writes' = Tail(writes)
    /\ UNCHANGED <<settings, changes, toggles, now, lastFetchTime, fetching, calls,
                   downloadVars, requests, extVars>>

NextInit ==
    \/ InitFetchSettled
    \/ InitSaveSettled
    \/ loadFromStorage
    \/ InitDefaultsSaved

SpecInit == InitStart /\ [][NextInit]_vars

----------------------------------------------------------------------------
(* The settings when every storage write succeeds: two icon clicks,        *)
(* refreshes and change events, starting from enabled = true.              *)

InitToggle ==
    /\ InitSettings
    /\ isEnabled(settings)

NextToggle ==
    \/ Tick
    \/ updateSupportedFileTypes
    \/ FetchSettled
    \/ ClickIcon(MaxClicks)
    \/ StorageWriteDone
    \/ StorageChanged

SpecToggle == InitToggle /\ [][NextToggle]_vars

----------------------------------------------------------------------------
(* The download interceptor with the icon toggle.                          *)

Catalogs == { {}, {DotZip} }

\* After AppSettings.getInstance(): the settings are those of the storage.
Init ==
    /\ browserType \in {"Chromium", "Firefox"}
    /\ downloads \in DownloadAssignments
    /\ handlers = [h \in Handlers |-> IdleHandler]
    /\ capturedDownloads = {}
    /\ ignoredDownloads = {}
    /\ tabsCreated = {}
    /\ requests = [r \in RequestSlots |-> IdleRequest]
    /\ settings \in [enabled : BOOLEAN, supportedFileTypes : Catalogs]
    /\ storage = settings
    /\ writes = <<>>
    /\ changes = <<>>
    /\ toggles = 0
    /\ FetchIdle
    /\ ExtIdle

Next ==
    \/ \E id \in Ids : DownloadCreated(id)
    \/ \E id \in Ids : DeterminingFilename(id)
    \/ \E id \in Ids : DelayElapsed(id)
    \/ \E h \in Handlers : CancelSettled(h)
    \/ \E h \in Handlers : EraseSettled(h)
    \/ \E h \in Handlers : ActiveTabSettled(h)
    \/ \E h \in Handlers : PostSettled(h)
    \/ \E h \in Handlers : ReleaseTimer(h)
    \/ actionOnClickedAction

Spec == Init /\ [][Next]_vars

----------------------------------------------------------------------------
(* The dispatch paths side by side: the notifications of one captured      *)
(* download together with page messages and context-menu clicks.           *)

InitDispatch ==
    /\ browserType \in {"Chromium", "Firefox"}
    /\ downloads = [id \in Ids |-> ZipDownload]
    /\ handlers = [h \in Handlers |-> IdleHandler]
    /\ capturedDownloads = {}
    /\ ignoredDownloads = {}
    /\ tabsCreated = {}
    /\ requests = [r \in RequestSlots |-> IdleRequest]
    /\ settings = [enabled |-> TRUE, supportedFileTypes |-> {DotZip}]
    /\ storage = settings
    /\ writes = <<>>
    /\ changes = <<>>
    /\ toggles = 0
    /\ FetchIdle
    /\ ExtIdle

NextDispatch ==
    \/ DownloadCreated(1)
    \/ DeterminingFilename(1)
    \/ DelayElapsed(1)
    \/ \E h \in HandlersOf(1) : CancelSettled(h)
    \/ \E h \in HandlersOf(1) : EraseSettled(h)
    \/ \E h \in HandlersOf(1) : ActiveTabSettled(h)
    \/ \E h \in HandlersOf(1) : PostSettled(h)
    \/ \E h \in HandlersOf(1) : ReleaseTimer(h)
    \/ \E h \in HandlersOf(1) : TabCreateSettled(h)
    \/ \E r \in RequestSlots : handleMessages(r)
    \/ \E r \in RequestSlots : handleSingleItemContextMenuClick(r)
    \/ \E r \in RequestSlots : handleMultipleItemsContextMenuClick(r)
    \/ \E r \in RequestSlots : LinksExtracted(r)
    \/ \E r \in RequestSlots : DescriptionSettled(r)
    \/ \E r \in RequestSlots : RequestPostSettled(r)

SpecDispatch == InitDispatch /\ [][NextDispatch]_vars

----------------------------------------------------------------------------
(* Capture and fallback to the browser: downloads of one file, by its url  *)
(* and through a redirecting link, the extension enabled, the file's type  *)
(* in the catalog.                                                         *)

InitReopen ==
    /\ browserType \in {"Chromium", "Firefox"}
    /\ downloads = [id \in Ids |-> IF id = 1 THEN ZipDownload ELSE RedirectedDownload]
    /\ handlers = [h \in Handlers |-> IdleHandler]
    /\ capturedDownloads = {}
    /\ ignoredDownloads = {}
    /\ tabsCreated = {}
    /\ requests = [r \in RequestSlots |-> IdleRequest]
    /\ settings = [enabled |-> TRUE, supportedFileTypes |-> {DotZip}]
    /\ storage = settings
    /\ writes = <<>>
    /\ changes = <<>>
    /\ toggles = 0
    /\ FetchIdle
    /\ ExtIdle

\* The steps of a redirect that was started: an awaited browser call settles,
\* the POST settles (the HTTP client gives up after 10 s).
RedirectProgress ==
    \/ \E h \in Handlers : CancelSettled(h)
    \/ \E h \in Handlers : EraseSettled(h)
    \/ \E h \in Handlers : ActiveTabSettled(h)
    \/ \E h \in Handlers : PostSettled(h)
    \/ \E h \in Handlers : TabCreateSettled(h)

NextReopen ==
    \/ \E id \in Ids : DownloadCreated(id)
    \/ \E id \in Ids : DeterminingFilename(id)
    \/ \E id \in Ids : DelayElapsed(id)
    \/ \E h \in Handlers : ReleaseTimer(h)
    \/ RedirectProgress

\* Every call a handler awaits settles. Nothing is assumed about when the
\* browser raises a notification or when a notification is handled.
SpecReopen == InitReopen /\ [][NextReopen]_vars /\ WF_vars(RedirectProgress)

----------------------------------------------------------------------------
(* Inputs of the FileTypeResolver harness.                                 *)

ExtFilenames ==
    { Empty,
      <<"v">> \o <<".", "M", "P", "4">>,
      <<"a">> \o DotZip,
      <<"p">> \o DotHtml,
      <<"r", "e", "a", "d">> }

ExtUrls ==
    { Http \o <<"a">> \o DotZip,
      Http \o <<"a">> \o DotBin \o <<"?", "x", "=", "1">>,
      Http \o <<"d", "l", "?", "f", "=", "a">> \o DotZip,
      Http \o <<"v">> \o DotMp4 \o <<"?", "t", "=", "1", ".", "5">>,
      Http \o <<"v">> \o DotMp4,
      Http \o <<"a">> \o DotZip \o <<"?", "u", "=", "/", "x">>,
      Http \o <<"p">> }

ExtMimes ==
    { Empty,
      <<"v", "i", "d", "e", "o", "/", "m", "p", "4">>,
      <<"a", "p", "p", "/", "Z", "I", "P">>,
      <<"t", "e", "x", "t">> }

ExtTypeSets == { {}, {DotMp4}, {DotZip}, {DotZip, DotMp4}, {DotBin, DotHtml} }

ExtItems ==
    [filename : ExtFilenames, finalUrl : ExtUrls \cup {Undefined}, url : ExtUrls,
     mime : ExtMimes]

InitExt ==
    /\ extItem \in ExtItems
    /\ extTypes \in ExtTypeSets
    /\ extResult = NotRun
    /\ extUrlResult = NotRun
    /\ browserType = "Chromium"
    /\ downloads = [id \in Ids |-> ZipDownload]
    /\ handlers = [h \in Handlers |-> IdleHandler]
    /\ capturedDownloads = {}
    /\ ignoredDownloads = {}
    /\ tabsCreated = {}
    /\ requests = [r \in RequestSlots |-> IdleRequest]
    /\ settings = DefaultSettings
    /\ storage = NoSettings
    /\ writes = <<>>
    /\ changes = <<>>
    /\ toggles = 0
    /\ FetchIdle

\* One call of getFileExtension(downloadItem).
ResolveExtension ==
    /\ extResult = NotRun
    /\ extResult' = getFileExtension(extItem, extTypes)
    /\ UNCHANGED <<extItem, extTypes, extUrlResult>>
    /\ UNCHANGED <<downloadVars, requests, settingsVars>>

\* One call of extractFileExtensionFromUrl(downloadItem.url).
ResolveUrlExtension ==
    /\ extUrlResult = NotRun
    /\ extUrlResult' = extractFileExtensionFromUrl(extItem.url)
    /\ UNCHANGED <<extItem, extTypes, extResult>>
    /\ UNCHANGED <<downloadVars, requests, settingsVars>>

NextExt == ResolveExtension \/ ResolveUrlExtension

SpecExt == InitExt /\ [][NextExt]_vars

----------------------------------------------------------------------------
(* Claims about the download interceptor (specification Spec).             *)

\* The notification kinds this browser delivers for a download.
DeliveredKinds == IF browserType = "Chromium" THEN Kinds ELSE {"created"}

\* Every notification of the download was delivered and its handler is past
\* every browser call and dispatch it makes (only its release timer may remain).
Settled(id) ==
    \A kind \in DeliveredKinds : handlers[<<id, kind>>].pc \in {"release", "done"}

NoBrowserSideAction(h) ==
    /\ handlers[h].suggests = 0
    /\ handlers[h].cancels = 0
    /\ handlers[h].erases = 0
    /\ handlers[h].posts = 0
    /\ handlers[h].tabs = 0

\* Sum of a counter over the handlers of one download id.
CountOf(id, field) == handlers[<<id, "naming">>][field] + handlers[<<id, "created">>][field]

\* C1 as claimed: when the dispatch POST of a browser-native request for U
\* failed with a network error (application unreachable), U is in the ignore
\* set and exactly one new tab was opened with U.
C1_UnreachableFallsBackToBrowser ==
    \A h \in Handlers :
        handlers[h].outcome = "networkError" =>
            /\ handlers[h].data[1].url \in ignoredDownloads
            /\ handlers[h].tabs = 1

\* C2 as claimed: a download that handleDownload cancelled and erased is
\* dispatched: once every notification of the id has been handled, a POST
\* carrying its URL has been sent.
C2_CancelledIsDispatched ==
    \A id \in Ids :
        (Settled(id) /\ \E h \in HandlersOf(id) : handlers[h].erased)
            => \E h \in HandlersOf(id) :
                   handlers[h].posts = 1 /\ handlers[h].data[1].url = DownloadItemUrl(downloads[id])

\* The download is of a supported type and scheme, the extension stayed
\* enabled, the first notification handled for the id found its url not
\* ignored (the ignore set only grows) and every cancel and erase issued for the
\* id succeeded.
C3_Precondition(id) ==
    /\ \E h \in HandlersOf(id) : handlers[h].evaluated /\ ~handlers[h].ignoredAtEval
    /\ toggles = 0
    /\ isEnabled(settings)
    /\ ~isUnsupportedProtocol(DownloadItemUrl(downloads[id]))
    /\ \A kind \in DeliveredKinds :
         isContainingFileType(settings.supportedFileTypes,
                              getFileExtension(Snapshot(id, kind), settings.supportedFileTypes))
    /\ \A h \in HandlersOf(id) : handlers[h].cancels = 1 => handlers[h].erased

\* C3 as claimed: given a supported type and enabled = true, exactly one
\* dispatch POST is made per download id, whatever the order and interleaving
\* of its notifications: never more than one, and one once they were handled.
C3_ExactlyOneDispatchPerId ==
    \A id \in Ids :
        C3_Precondition(id) =>
            /\ CountOf(id, "posts") <= 1
            /\ Settled(id) => CountOf(id, "posts") = 1

\* C4 as claimed: chrome.downloads.cancel is issued at most once per download
\* id over all notifications of that id.
C4_CancelAtMostOncePerId == \A id \in Ids : CountOf(id, "cancels") <= 1

\* C5: a handleDownload invocation that found the extension disabled issued no
\* suggest, cancel, erase, dispatch or tab-open.
C5_DisabledDoesNothing ==
    \A h \in Handlers :
        (handlers[h].evaluated /\ ~handlers[h].enabledAtEval) => NoBrowserSideAction(h)

\* C5 witness: the creation notification of a supported download whose id is
\* in the captured set was evaluated while disabled, and the handler finished.
C5_Witness ==
    \E id \in Ids :
        /\ handlers[<<id, "created">>].pc = "done"
        /\ handlers[<<id, "created">>].evaluated
        /\ ~handlers[<<id, "created">>].enabledAtEval
        /\ handlers[<<id, "naming">>].erased
        /\ id \in capturedDownloads

\* C6: a handleDownload invocation that found the download's url or finalUrl in
\* the ignore set (which holds the urls of failed browser-native dispatches)
\* issued no suggest, cancel, erase, dispatch or tab-open.
C6_IgnoredPassesThrough ==
    /\ \A h \in Handlers :
         (handlers[h].evaluated /\ handlers[h].ignoredAtEval) => NoBrowserSideAction(h)
    /\ \A u \in ignoredDownloads :
         \E h \in Handlers :
            /\ handlers[h].outcome \in PostOutcomes \ {"accepted"}
            /\ handlers[h].data[1].url = u
            /\ handlers[h].data[1].isBrowserNative

\* C6 witness: the dispatch of one download of U failed and U was re-opened in
\* a tab; a later notification of another download whose finalUrl is U (its url
\* is not) was evaluated while enabled and its handler finished.
C6_Witness ==
    \E a, b \in Ids :
        /\ a # b
        /\ handlers[<<a, "created">>].tabs = 1
        /\ \E kind \in Kinds :
             /\ handlers[<<b, kind>>].pc = "done"
             /\ handlers[<<b, kind>>].enabledAtEval
             /\ handlers[<<b, kind>>].ignoredAtEval
             /\ handlers[<<b, kind>>].item.finalUrl \in ignoredDownloads
             /\ handlers[<<b, kind>>].item.url \notin ignoredDownloads

\* C11: a handleDownload invocation that found the download's effective url
\* (finalUrl, else url) on an unsupported scheme, or its resolved file
\* extension outside the supported set, issued no suggest, cancel, erase,
\* dispatch or tab-open.
C11_UnsupportedPassesThrough ==
    \A h \in Handlers :
        (handlers[h].evaluated /\ handlers[h].unsupportedAtEval) => NoBrowserSideAction(h)

\* C11 witness: with the extension enabled and nothing ignored, the naming
\* notification of a blob: download with a supported filename and a
\* notification of a download with an unsupported extension were both handled.
C11_Witness ==
    \E a, b \in Handlers :
        /\ a[2] = "naming"
        /\ handlers[a].pc = "done" /\ handlers[b].pc = "done"
        /\ handlers[a].enabledAtEval /\ handlers[b].enabledAtEval
        /\ ~handlers[a].ignoredAtEval /\ ~handlers[b].ignoredAtEval
        /\ isUnsupportedProtocol(DownloadItemUrl(handlers[a].item))
        /\ isContainingFileType(settings.supportedFileTypes,
                                getFileExtension(handlers[a].item, settings.supportedFileTypes))
        /\ ~isUnsupportedProtocol(DownloadItemUrl(handlers[b].item))
        /\ handlers[b].unsupportedAtEval

\* Handler h runs the head of handleDownload in this step.
Evaluates(h) == ~handlers[h].evaluated /\ handlers'[h].evaluated

\* C12 as claimed: a notification handled after another notification of the
\* same id ended in pass-through, or after the id's dispatch settled, issues no
\* suggest, cancel, erase, dispatch or tab-open.
C12_TerminalIsNotRevisited ==
    [][\A h \in Handlers :
          (Evaluates(h) /\ \E g \in HandlersOf(h[1]) \ {h} : Terminal(g))
              => NoBrowserSideAction(h)']_vars

\* C18 as claimed: the id is inserted into capturedDownloads in the turn that
\* tested it: a handler that found the id not captured and is suspended in its
\* cancel or erase has the id in the set already.
C18_CheckAndInsertAtomic ==
    \A h \in Handlers :
        (h[2] = "created" /\ handlers[h].pc \in {"cancel", "erase"})
            => h[1] \in capturedDownloads

\* C19 as claimed: a naming notification handled while its id is in the
\* captured set issues no cancel and no erase.
C19_CapturedNamingDoesNotRecancel ==
    [][\A id \in Ids :
          (Evaluates(<<id, "naming">>) /\ id \in capturedDownloads)
              => /\ handlers'[<<id, "naming">>].cancels = 0
                 /\ handlers'[<<id, "naming">>].erases = 0]_vars

\* C20 as claimed: whatever the failure of the dispatch POST of a
\* browser-native request (no answer, a non-2xx status, or a 2xx answer with
\* isSuccessful = false), its url is in the ignore set and was re-opened in
\* exactly one tab.
C20_EveryFailureFallsBack ==
    \A h \in Handlers, kind \in PostOutcomes \ {"accepted"} :
        handlers[h].outcome = kind =>
            /\ handlers[h].data[1].isBrowserNative
            /\ handlers[h].data[1].url \in ignoredDownloads
            /\ handlers[h].data[1].url \in tabsCreated
            /\ handlers[h].tabs = 1

----------------------------------------------------------------------------
(* Claims about the dispatch paths (specification SpecDispatch).           *)

\* The POST bodies handed to downloadFile so far.
DispatchedByDownloads == {handlers[h].data : h \in {g \in Handlers : handlers[g].posts = 1}}

DispatchedByPages == {requests[r].data : r \in {q \in RequestSlots : requests[q].posts = 1}}

NonEmptyUrls(data) == \A i \in 1..Len(data) : ~Falsy(data[i].url)

\* C9: every request handed to the dispatch POST has a non-empty url; it is
\* flagged browser-native when handleDownload built it from a download and not
\* flagged when a page message or a context-menu click built it.
C9_RequestsWellFormed ==
    /\ \A data \in DispatchedByDownloads :
         /\ Len(data) = 1
         /\ NonEmptyUrls(data)
         /\ \A i \in 1..Len(data) : data[i].isBrowserNative
    /\ \A data \in DispatchedByPages :
         /\ Len(data) >= 1
         /\ NonEmptyUrls(data)
         /\ \A i \in 1..Len(data) : ~data[i].isBrowserNative

\* C9 witness: a captured download and a single-item context-menu click have
\* both been dispatched.
C9_Witness ==
    /\ \E h \in Handlers : handlers[h].posts = 1 /\ handlers[h].erased
    /\ \E r \in RequestSlots : requests[r].posts = 1 /\ requests[r].origin = "single"

FailedOutcomes == PostOutcomes \ {"accepted"}

\* A browser-native request for url u whose dispatch failed.
FailedNativeRequest(u) ==
    \E h \in Handlers :
        /\ handlers[h].outcome \in FailedOutcomes
        /\ handlers[h].data[1].isBrowserNative
        /\ handlers[h].data[1].url = u

\* C10: the failed dispatch of a page or context-menu request opens no tab, and
\* every url passed to chrome.tabs.create or held in the ignore set is the url
\* of a browser-native request whose dispatch failed.
C10_NoFallbackForPageRequests ==
    /\ \A r \in RequestSlots : requests[r].tabs = 0
    /\ \A u \in tabsCreated : FailedNativeRequest(u)
    /\ \A u \in ignoredDownloads : FailedNativeRequest(u)

\* C10 witness: the dispatch of a page message for U was answered with
\* isSuccessful = false, and U is neither ignored nor re-opened.
C10_Witness ==
    \E r \in RequestSlots :
        /\ requests[r].origin = "message"
        /\ requests[r].outcome = "rejected"
        /\ requests[r].data[1].url \notin ignoredDownloads
        /\ requests[r].data[1].url \notin tabsCreated

\* The message asks for a download and names its url.
IsDownloadRequest(message) == message.type = "download_media" /\ ~Falsy(message.url)

\* C15: every message handled got exactly one response; a message of another
\* type and a download_media message without url got the rejection and caused
\* no dispatch POST.
C15_EveryMessageAnsweredOnce ==
    \A r \in RequestSlots :
        requests[r].origin = "message" =>
            /\ requests[r].responses = 1
            /\ ~IsDownloadRequest(requests[r].message) =>
                  /\ requests[r].ack = "rejected"
                  /\ requests[r].posts = 0
                  /\ requests[r].data = NoData
                  /\ requests[r].pc = "done"

\* C15 witness: a download_media message with an empty url was handled.
C15_Witness ==
    \E r \in RequestSlots :
        /\ requests[r].origin = "message"
        /\ requests[r].message.type = "download_media"
        /\ requests[r].message.url = Empty
        /\ requests[r].ack = "rejected"

\* C16: for a download_media message with a url the acknowledgment is sent
\* first and the dispatch POST second, each once; the POST carries the
\* message's url, and the acknowledgment is the success one whatever the
\* outcome of the POST.
C16_AcknowledgedThenDispatched ==
    \A r \in RequestSlots :
        (requests[r].origin = "message" /\ IsDownloadRequest(requests[r].message)) =>
            /\ requests[r].events = <<"sendResponse", "post">>
            /\ requests[r].responses = 1
            /\ requests[r].posts = 1
            /\ requests[r].ack = "received"
            /\ requests[r].data = <<PageRequest(requests[r].message.url)>>

\* C16 witness: the dispatch of an acknowledged message failed with a network
\* error.
C16_Witness ==
    \E r \in RequestSlots :
        /\ requests[r].origin = "message"
        /\ IsDownloadRequest(requests[r].message)
        /\ requests[r].outcome = "networkError"
        /\ requests[r].ack = "received"

\* C17 as claimed: whatever call fails, no rejection escapes a handler
\* invocation to the host.
C17_NoRejectionEscapes == \A h \in Handlers : handlers[h].escaped = 0

----------------------------------------------------------------------------
(* Claims about the supported-type refresh (specification SpecSettings).   *)

WithinWindow(i, j) == i < j /\ calls[j].time - calls[i].time < FetchWindow

\* C8 as claimed: of two updateSupportedFileTypes calls within the rate-limit
\* window, the later one is a no-op: it performs no network fetch.
C8_LaterCallNeverFetches ==
    \A i, j \in 1..Len(calls) : WithinWindow(i, j) => ~calls[j].fetched

\* No call in the window of an earlier fetching call has fetched; the window is
\* counted from the last call that fetched, and every GET awaiting its response
\* was issued by a fetching call.
AtMostOneFetchPerWindow ==
    /\ \A i, j \in 1..Len(calls) :
         (WithinWindow(i, j) /\ calls[i].fetched) => ~calls[j].fetched
    /\ \A j \in 1..Len(calls) :
         calls[j].fetched => lastFetchTime >= calls[j].time
    /\ fetching <= Cardinality({j \in 1..Len(calls) : calls[j].fetched})

\* A call that does not fetch changes nothing but the log of calls.
NoOpCallStep ==
    (Len(calls') > Len(calls) /\ ~calls'[Len(calls')].fetched)
        => UNCHANGED <<settings, storage, writes, changes, lastFetchTime, fetching>>

\* C8 as amended: two calls within the window never both fetch; when the
\* earlier one fetched, the later one is a no-op that issues no GET and leaves
\* the settings, the cached catalog among them, unchanged, also while that
\* fetch is still awaiting its response.
C8_AtMostOneFetchPerWindow == []AtMostOneFetchPerWindow /\ [][NoOpCallStep]_vars

\* C8 witness: a second call arrived in the same minute as a fetching call
\* whose GET was still awaiting its response, and did not fetch.
C8_Witness ==
    \E i, j \in 1..Len(calls) :
        /\ i > 1
        /\ WithinWindow(i, j)
        /\ calls[j].time = calls[i].time
        /\ calls[i].fetched
        /\ ~calls[j].fetched
        /\ calls[j].inFlight >= 1

\* A catalog fetch settled in this step as a failure.
FetchFailsInStep ==
    \E i \in 1..Len(calls) :
        /\ calls[i].outcome = "pending"
        /\ calls'[i].outcome \in {"unsuccessful", "threw"}

\* C13: a failed fetch of the supported types (a throw of the HTTP client or a
\* response with isSuccessful = false) leaves the catalog and the enabled flag
\* as they were, in memory and in storage, and issues no storage write.
C13_FailedFetchKeepsCatalog ==
    [][FetchFailsInStep => UNCHANGED <<settings, storage, writes, changes>>]_vars

\* C13 witness: a fetch made after construction was answered with
\* isSuccessful = false while a non-empty catalog was cached, and the catalog
\* is still there.
C13_Witness ==
    \E i \in 2..Len(calls) :
        /\ calls[i].outcome = "unsuccessful"
        /\ settings.supportedFileTypes # {}
        /\ storage.supportedFileTypes = settings.supportedFileTypes

\* C14 as claimed: a value is visible through the accessors only once its
\* storage write succeeded, and a failed write leaves the earlier value
\* visible: with no write and no change event outstanding, the settings in
\* memory are the stored ones.
C14_SetIsTransactional ==
    (writes = <<>> /\ changes = <<>>) => settings = storage

----------------------------------------------------------------------------
(* C7: the resolver's fallback chain.                                      *)

\* The four signals of a download item, as candidates: <<>> stands for a signal
\* that yields nothing.
FilenameCandidate(item) ==
    IF item.filename # Undefined /\ item.filename # Empty
    THEN SuffixFromLastDot(item.filename)
    ELSE Empty

MimeCandidate(item) == IF HasMimeSubtype(item.mime) THEN MimeExtension(item.mime) ELSE Empty

AllCandidates(item) ==
    << FilenameCandidate(item),
       extractFileExtensionFromUrl(item.finalUrl),
       extractFileExtensionFromUrl(item.url),
       MimeCandidate(item) >>

\* The signals the code consults: the URLs only for an item without filename.
ConsultedCandidates(item) ==
    IF item.filename # Undefined /\ item.filename # Empty
    THEN << FilenameCandidate(item), MimeCandidate(item) >>
    ELSE << extractFileExtensionFromUrl(item.finalUrl),
            extractFileExtensionFromUrl(item.url),
            MimeCandidate(item) >>

Accepted(types, c) == c # Empty /\ isContainingFileType(types, c)

HasAccepted(cands, types) == \E i \in 1..Len(cands) : Accepted(types, cands[i])

FirstAccepted(cands, types) ==
    cands[CHOOSE i \in 1..Len(cands) :
            /\ Accepted(types, cands[i])
            /\ \A j \in 1..(i-1) : ~Accepted(types, cands[j])]

\* C7 as claimed: getFileExtension returns the first non-empty supported
\* candidate in the order filename, final URL, original URL, MIME, a later
\* signal being tried whenever an earlier one is empty or unsupported.
C7_FirstSupportedOfAllSignals ==
    (extResult # NotRun /\ HasAccepted(AllCandidates(extItem), extTypes))
        => extResult = FirstAccepted(AllCandidates(extItem), extTypes)

\* C7 as amended: getFileExtension returns the first non-empty supported
\* candidate among the signals it consults (filename then MIME when a filename
\* is present; final URL, original URL, MIME when it is not), and a supported
\* filename suffix is returned whatever the URLs and the MIME type are.
C7_FirstSupportedOfConsultedSignals ==
    extResult # NotRun =>
        /\ HasAccepted(ConsultedCandidates(extItem), extTypes)
              => extResult = FirstAccepted(ConsultedCandidates(extItem), extTypes)
        /\ Accepted(extTypes, FilenameCandidate(extItem))
              => extResult = FilenameCandidate(extItem)

\* C7 witness: no filename, an unsupported final-URL suffix, and the MIME
\* fallback has produced the supported extension.
C7_Witness ==
    /\ extResult = DotMp4
    /\ extItem.filename = Empty
    /\ extractFileExtensionFromUrl(extItem.finalUrl) = DotBin
    /\ ~isContainingFileType(extTypes, DotBin)
    /\ MimeCandidate(extItem) = DotMp4

----------------------------------------------------------------------------
(* C29, C30: the extension taken from a URL or a filename.                 *)

\* The url without its query string.
PathOf(url) == IF Includes(url, "?") THEN Substring(url, 0, IndexOf(url, "?")) ELSE url

\* The last segment of the url's path.
LastSegment(url) == SubstringFrom(PathOf(url), LastIndexOf(PathOf(url), "/") + 1)

\* The lower-cased suffix from the last "." of the path's last segment.
PathSuffix(url) ==
    Trim(ToLowerCase(SubstringFrom(LastSegment(url), LastIndexOf(LastSegment(url), "."))))

\* C29 as claimed: for a url whose last path segment has a ".",
\* extractFileExtensionFromUrl returns the suffix from the last "." of that
\* segment, whatever the query string is.
C29_QueryStringIgnored ==
    (extUrlResult # NotRun /\ Includes(LastSegment(extItem.url), "."))
        => extUrlResult = PathSuffix(extItem.url)

\* C30 as claimed: a url whose last path segment has no "." yields the empty
\* extension, and a filename without "." never yields the whole name.
C30_NoDotYieldsEmpty ==
    /\ (extUrlResult # NotRun /\ ~Includes(LastSegment(extItem.url), "."))
          => extUrlResult = Empty
    /\ (extResult # NotRun /\ extItem.filename # Empty /\ ~Includes(extItem.filename, "."))
          => extResult # Trim(ToLowerCase(extItem.filename))

----------------------------------------------------------------------------
(* C27, C28: the settings in memory.                                       *)

\* A storage write is rejected in this step: it leaves the queue, the stored
\* object stays and no change event is raised.
WriteFailsInStep ==
    /\ writes # <<>>
    /\ writes' = Tail(writes)
    /\ UNCHANGED <<storage, changes>>

C28_CatalogIsNormalised ==
    /\ \A e \in settings.supportedFileTypes :
          /\ Len(e) >= 1
          /\ e[1] = "."
          /\ ToLowerCase(e) = e
    /\ \A e \in {DotZip, DotMp4} :
          isContainingFileType(settings.supportedFileTypes, e)
             = (\E t \in settings.supportedFileTypes : ToLowerCase(t) = e)

----------------------------------------------------------------------------
(* C25: how the ignore set grows.                                          *)

\* The dispatch of handler h settles in this step with a failure, and it held a
\* browser-native request for url u.
NativeDispatchFailsInStep(h, u) ==
    /\ handlers[h].pc = "post"
    /\ handlers'[h].pc # "post"
    /\ handlers'[h].outcome \in FailedOutcomes
    /\ \E i \in 1..Len(handlers[h].data) :
          /\ handlers[h].data[i].isBrowserNative
          /\ handlers[h].data[i].url = u

\* C25: a url enters the ignore set only in the step in
\* which the dispatch of a browser-native request for that url fails; a
\* dispatch that succeeds, a handler that decides (pass-through included) and
\* the settling of a page or context-menu dispatch leave the set as it is.
C25_IgnoredOnlyAfterFailedNativeDispatch ==
    [][/\ \A u \in ignoredDownloads' \ ignoredDownloads :
             \E h \in Handlers : NativeDispatchFailsInStep(h, u)
       /\ (\E h \in Handlers : handlers[h].pc = "post" /\ handlers'[h].outcome = "accepted")
             => ignoredDownloads' = ignoredDownloads
       /\ (\E h \in Handlers : Evaluates(h)) => ignoredDownloads' = ignoredDownloads
       /\ (\E r \in RequestSlots : requests[r].pc = "post" /\ requests'[r].pc # "post")
             => ignoredDownloads' = ignoredDownloads]_vars

\* C25 witness: a captured download's dispatch was refused and its url is
\* ignored, while a page request's dispatch also failed and its url is not.
C25_Witness ==
    /\ \E h \in Handlers :
          /\ handlers[h].outcome = "rejected"
          /\ handlers[h].data[1].url \in ignoredDownloads
    /\ \E r \in RequestSlots :
          /\ requests[r].outcome \in FailedOutcomes
          /\ requests[r].data # NoData
          /\ requests[r].data[1].url \notin ignoredDownloads

----------------------------------------------------------------------------
(* C21, C23, C24, C26: the capture set and the order of the browser calls. *)

\* C21 as claimed: while the dispatch of a captured download is in flight its
\* id is in capturedDownloads: no release timer removes it before the POST
\* settled.
C21_CapturedWhileInFlight ==
    \A h \in Handlers : handlers[h].pc = "post" => h[1] \in capturedDownloads

IsPrefix(s, t) == Len(s) <= Len(t) /\ \A i \in 1..Len(s) : s[i] = t[i]

\* C23: the browser calls of one handler come in the order suggest, cancel,
\* erase, POST: suggest (naming notification only) is called before cancel,
\* erase is issued only when cancel resolved, the POST only when erase
\* resolved, and after a rejected cancel no erase is issued.
C23_BrowserCallsInOrder ==
    \A h \in Handlers :
        LET e == handlers[h].events
        IN  /\ \/ IsPrefix(e, <<"suggest", "cancel", "erase">>)
               \/ IsPrefix(e, <<"cancel", "erase", "post">>)
               \/ e = <<"post">>
            /\ (h[2] = "naming" /\ CountIn(e, "cancel") > 0) => e[1] = "suggest"
            /\ handlers[h].pc = "cancel" => e[Len(e)] = "cancel"
            /\ handlers[h].pc = "erase" => e[Len(e)] = "erase"
            /\ CountIn(e, "erase") > 0 => handlers[h].cancelOk
            /\ (CountIn(e, "post") > 0 /\ CountIn(e, "cancel") > 0) => handlers[h].erased
            /\ (handlers[h].cancels > 0 /\ ~handlers[h].cancelOk
                   /\ handlers[h].pc \in {"release", "done"})
                  => handlers[h].erases = 0

\* C23 witness: one naming handler went through suggest, cancel and erase, one
\* creation handler through cancel, erase and POST, and one handler's cancel
\* was rejected and it stopped there.
C23_Witness ==
    /\ \E h \in Handlers : handlers[h].events = <<"suggest", "cancel", "erase">>
                           /\ handlers[h].erased
    /\ \E h \in Handlers : handlers[h].events = <<"cancel", "erase", "post">>
    /\ \E h \in Handlers : /\ CountIn(handlers[h].events, "cancel") = 1
                           /\ ~handlers[h].cancelOk
                           /\ handlers[h].pc \in {"release", "done"}

\* C24 as claimed: a supported download delivered while the extension is
\* enabled ends with one cancel, one erase and one dispatch, whether the host
\* delivers the creation notification alone or the naming notification too.
C24_DeliveryStylesEquivalent ==
    \A id \in Ids :
        (/\ C3_Precondition(id)
         /\ \A h \in HandlersOf(id) : ~handlers[h].ignoredAtEval
         /\ Settled(id))
            => /\ CountOf(id, "cancels") = 1
               /\ CountOf(id, "erases") = 1
               /\ CountOf(id, "posts") = 1

\* The ids some handler captured, whether or not a release timer removed them
\* since: capturedDownloads as it is when no release timer ever fires.
EverCaptured == {id \in Ids : \E h \in HandlersOf(id) : handlers[h].erased}

\* C26 as claimed: every decision of handleDownload is the one it would be had
\* no release timer fired.
C26_IndependentOfReleaseTimers ==
    [][\A h \in Handlers :
          Evaluates(h) =>
             handleDownloadBranch(handlers'[h].item, h[1], h[2] = "naming", settings,
                                  ignoredDownloads, capturedDownloads)
               = handleDownloadBranch(handlers'[h].item, h[1], h[2] = "naming", settings,
                                      ignoredDownloads, EverCaptured)]_vars

----------------------------------------------------------------------------
(* C22: the capture/fallback cycle ends.                                   *)

\* The handlers that opened a tab with url u.
TabsFor(u) ==
    {h \in Handlers : handlers[h].tabs > 0 /\ handlers[h].data[1].url = u}

\* The ids of downloads of u that were captured by a handler which found u not
\* ignored.
CapturedBeforeIgnored(u) ==
    {id \in Ids : \E h \in HandlersOf(id) :
        /\ handlers[h].evaluated
        /\ ~handlers[h].ignoredAtEval
        /\ handlers[h].erased
        /\ DownloadItemUrl(handlers[h].item) = u}

\* A handler awaits a browser call or the POST, or a tab is being opened.
PendingRedirect ==
    \E h \in Handlers :
        \/ handlers[h].pc \in {"cancel", "erase", "tab", "post"}
        \/ handlers[h].tabCall = "pending"

\* A handler that finds its download's url or finalUrl in the ignore set leaves
\* the download to the browser.
RetryPassesThrough ==
    \A h \in Handlers :
        (/\ Evaluates(h)
         /\ \/ handlers'[h].item.url \in ignoredDownloads
            \/ handlers'[h].item.finalUrl \in ignoredDownloads)
            => /\ NoBrowserSideAction(h)'
               /\ handlers'[h].pc = "release"

\* Every handler opens at most one tab, and a url is opened in at most as many
\* tabs as downloads of it were captured while it was not ignored.
TabsBounded ==
    /\ \A h \in Handlers : handlers[h].tabs <= 1
    /\ \A u \in {ZipUrl, RedirectUrl} :
          Cardinality(TabsFor(u)) <= Cardinality(CapturedBeforeIgnored(u))

\* C22: the download raised by re-opening an ignored url is passed through,
\* the tabs opened for a url are bounded by the downloads of it captured before
\* it was ignored, and eventually no redirect is pending any more.
C22_FallbackDoesNotLoop ==
    /\ [][RetryPassesThrough]_vars
    /\ []TabsBounded
    /\ <>[]~PendingRedirect

\* C22 witness: the dispatch of one download was refused, its url was ignored
\* and re-opened in a tab; a later download of it was handled by both listeners
\* and left alone; nothing is pending.
C22_Witness ==
    /\ browserType = "Chromium"
    /\ ~PendingRedirect
    /\ \E h \in Handlers :
          /\ handlers[h].outcome = "rejected"
          /\ handlers[h].tabCall = "resolved"
          /\ handlers[h].data[1].url \in ignoredDownloads
          /\ \A g \in Handlers \ HandlersOf(h[1]) :
                /\ handlers[g].pc = "done"
                /\ handlers[g].ignoredAtEval
                /\ NoBrowserSideAction(g)

----------------------------------------------------------------------------
(* C37: the window of the catalog refresh.                                 *)

\* C37: the five-minute window starts when a fetch is started: a call made
\* less than FetchWindow after a call that fetched performs no fetch, whether
\* that fetch is still pending, succeeded, was answered unsuccessfully or threw.
C37_WindowStartsAtFetchStart ==
    \A i, j \in 1..Len(calls) :
        (/\ i < j
         /\ calls[i].fetched
         /\ calls[j].time - calls[i].time < FetchWindow)
            => ~calls[j].fetched

\* C37 witness: a fetch made after construction failed, and a later call
\* inside its window returned without fetching.
C37_Witness ==
    \E i, j \in 2..Len(calls) :
        /\ i < j
        /\ calls[i].fetched
        /\ calls[i].outcome \in {"unsuccessful", "threw"}
        /\ calls[j].time - calls[i].time < FetchWindow
        /\ calls[j].time > calls[i].time
        /\ ~calls[j].fetched

----------------------------------------------------------------------------
(* C32, C34: toggles and convergence.                                      *)

\* No storage write and no change event is outstanding.
Quiescent == writes = <<>> /\ changes = <<>>

\* C32 as claimed (starting from enabled = true, every write succeeding): once
\* one toggle completed, the flag is false in memory and in storage; once two
\* toggles completed, sequential or overlapping, it is true again in both.
C32_ToggleFlipsAndPersists ==
    Quiescent =>
        /\ toggles = 1 => (~isEnabled(settings) /\ ~isEnabled(storage))
        /\ toggles = 2 => (isEnabled(settings) /\ isEnabled(storage))

\* C34: when every storage write has succeeded and every change event has been
\* delivered, in order, the settings in memory are the stored ones.
C34_MemoryAndStorageConverge == Quiescent => settings = storage

\* C34 witness: two clicks and a successful refresh after construction went
\* through, nothing is outstanding, and memory and storage hold the refreshed
\* catalog.
C34_Witness ==
    /\ Quiescent
    /\ toggles = 2
    /\ \E i \in 2..Len(calls) : calls[i].outcome = "success"
    /\ settings = storage
    /\ settings.supportedFileTypes # {}

----------------------------------------------------------------------------
(* C33: the enabled flag across a restart.                                 *)

\* C33 as claimed: when the stored settings hold enabled = false while
\* AppSettings initializes, no step of the initialization stores another value,
\* and when the initialization returns isEnabled() is false, whatever the
\* outcome of the fetch of the supported types.
C33_EnabledSurvivesRestart ==
    [][(initPc # "ready" /\ storage # NoSettings /\ ~isEnabled(storage))
          => /\ storage' # NoSettings
             /\ ~isEnabled(storage')
             /\ initPc' = "ready" => ~isEnabled(settings')]_vars

----------------------------------------------------------------------------
(* C31: handlers of different downloads do not touch each other's id.      *)

\* Handler h takes a step of handleDownload.
Moves(h) == handlers'[h].pc # handlers[h].pc

\* The capture entry of id b and the browser calls issued for b stay as they
\* are.
Untouched(b) ==
    /\ (b \in capturedDownloads') = (b \in capturedDownloads)
    /\ \A g \in HandlersOf(b) :
         /\ handlers'[g].events = handlers[g].events
         /\ handlers'[g].cancels = handlers[g].cancels
         /\ handlers'[g].erases = handlers[g].erases
         /\ handlers'[g].erased = handlers[g].erased

\* C31: in every step in which a handler of download a runs, release timer
\* included, every other download b keeps its capture entry and gets no cancel
\* and no erase; a step in which no handler runs touches no download.
C31_PerIdIsolation ==
    [][/\ \A h \in Handlers : Moves(h) => \A b \in Ids \ {h[1]} : Untouched(b)
       /\ (\A h \in Handlers : ~Moves(h)) => \A b \in Ids : Untouched(b)]_vars

\* Two downloads were captured while both were in flight, and the release of
\* the first one has run while the second one is still captured.
C31_Witness ==
    /\ handlers[<<1, "created">>].pc = "done"
    /\ handlers[<<1, "created">>].erased
    /\ 1 \notin capturedDownloads
    /\ 2 \in capturedDownloads
    /\ handlers[<<2, "created">>].pc = "post"

----------------------------------------------------------------------------
(* C35: a notification that is passed through and the captured set.        *)

\* Handler h found the extension disabled, the url ignored, or the scheme or
\* the type unsupported, and returned.
EndsInPassThrough(h) ==
    /\ handlers'[h].evaluated
    /\ \/ ~handlers'[h].enabledAtEval
       \/ handlers'[h].ignoredAtEval
       \/ handlers'[h].unsupportedAtEval

\* C35 as claimed: no step of a handler that ends in pass-through, neither its
\* evaluation nor the timer it schedules, changes the captured set.
C35_PassThroughKeepsCaptured ==
    [][\A h \in Handlers :
          (Moves(h) /\ EndsInPassThrough(h)) => capturedDownloads' = capturedDownloads]_vars

----------------------------------------------------------------------------
(* C36: the ignore set only grows.                                         *)

\* Handler h decides about a download whose url is ignored.
EvaluatesIgnored(h) ==
    /\ Evaluates(h)
    /\ isEnabled(settings)
    /\ DownloadItemUrl(handlers'[h].item) \in ignoredDownloads

\* C36: no step removes a url from ignoredDownloads, and a notification that
\* is handled while the extension is enabled and its url is ignored is passed
\* through: no suggest, no cancel, no erase, no dispatch, only the release
\* timer. That holds whatever the application answered to other dispatches in
\* the meantime.
C36_IgnoreSetOnlyGrows ==
    [][/\ ignoredDownloads \subseteq ignoredDownloads'
       /\ \A h \in Handlers :
             EvaluatesIgnored(h)
                => /\ handlers'[h].ignoredAtEval
                   /\ handlers'[h].pc = "release"
                   /\ handlers'[h].events = <<>>
                   /\ capturedDownloads' = capturedDownloads]_vars

\* C36 witness: the dispatch of the captured download was refused and its url
\* ignored, the application has accepted a page request, and the naming
\* notification carrying that url was passed through.
C36_Witness ==
    /\ handlers[<<1, "created">>].outcome = "rejected"
    /\ \E r \in RequestSlots : requests[r].outcome = "accepted"
    /\ handlers[<<1, "naming">>].ignoredAtEval
    /\ handlers[<<1, "naming">>].pc \in {"release", "done"}
    /\ handlers[<<1, "naming">>].events = <<>>

----------------------------------------------------------------------------
(* C39: in the fallback the url is ignored before its tab is opened.       *)

\* Every url chrome.tabs.create was called with is in the ignore set.
OpenedAreIgnored == tabsCreated \subseteq ignoredDownloads

\* C39: from the moment chrome.tabs.create is called for a url on, the url
\* is in the ignore set, and a download notification whose url or final url a
\* tab was opened for finds it ignored, also when it is handled before the
\* promise of tabs.create settles.
C39_IgnoredBeforeTabOpened ==
    /\ []OpenedAreIgnored
    /\ [][\A h \in Handlers :
             (Evaluates(h) /\ IsIgnored(handlers'[h].item, tabsCreated))
                => handlers'[h].ignoredAtEval]_vars

\* C39 witness: the fallback of download 1 has called tabs.create, whose promise
\* is still pending, and the naming notification of the re-opened download has
\* been handled and found the url ignored.
C39_Witness ==
    /\ handlers[<<1, "created">>].outcome = "rejected"
    /\ handlers[<<1, "created">>].tabCall = "pending"
    /\ ZipUrl \in tabsCreated
    /\ handlers[<<2, "naming">>].evaluated
    /\ handlers[<<2, "naming">>].ignoredAtEval
    /\ handlers[<<2, "naming">>].events = <<>>

----------------------------------------------------------------------------
(* C38: a failed cancel or erase inside handleDownload.                    *)

\* The cancel or the erase of handler h is rejected in this step.
CaptureFailsInStep(h) ==
    \/ handlers[h].pc = "cancel" /\ Moves(h) /\ ~handlers'[h].cancelOk
    \/ handlers[h].pc = "erase" /\ Moves(h) /\ ~handlers'[h].erased

\* Handler h's cancel or erase was rejected.
CaptureFailed(h) ==
    \/ handlers[h].cancels = 1 /\ handlers[h].pc # "cancel" /\ ~handlers[h].cancelOk
    \/ handlers[h].erases = 1 /\ handlers[h].pc # "erase" /\ ~handlers[h].erased

\* C38: the step in which a handler's cancel or erase is rejected adds nothing
\* to the captured set and takes the handler to its release timer; such a
\* handler never sends a dispatch and never opens a tab. A handler goes to the
\* dispatch only from a successful erase that followed its successful cancel,
\* or from finding the id captured when it decides.
C38_FailedCaptureStopsHandler ==
    [][\A h \in Handlers :
          /\ CaptureFailsInStep(h)
                => /\ capturedDownloads' = capturedDownloads
                   /\ handlers'[h].pc = "release"
          /\ CaptureFailed(h)
                => /\ handlers'[h].pc \in {"release", "done"}
                   /\ handlers'[h].posts = 0
                   /\ handlers'[h].tabs = 0
          /\ (handlers[h].pc # "tab" /\ handlers'[h].pc = "tab")
                => \/ /\ handlers[h].pc = "erase"
                      /\ handlers[h].cancelOk
                      /\ handlers'[h].erased
                   \/ /\ Evaluates(h)
                      /\ h[1] \in capturedDownloads
                      /\ handlers'[h].cancels = 0]_vars

\* C38 witness: the erase of the naming handler was rejected, so the download
\* was not captured by it; the creation handler then cancelled and erased the
\* download itself and dispatched it.
C38_Witness ==
    /\ handlers[<<1, "naming">>].erases = 1
    /\ ~handlers[<<1, "naming">>].erased
    /\ handlers[<<1, "naming">>].pc \in {"release", "done"}
    /\ handlers[<<1, "naming">>].posts = 0
    /\ handlers[<<1, "created">>].cancelOk
    /\ handlers[<<1, "created">>].erased
    /\ handlers[<<1, "created">>].posts = 1

====
